---- MODULE Spec2Model ----
(***************************************************************************)
(* GStreamerPlayer: the adapter between a GStreamer pipeline and the       *)
(* observable booleans (playing, paused, stopped) of the UI.               *)
(*                                                                         *)
(* Every handler of GStreamerPlayer.cpp is an operator on a record S that  *)
(* holds the object's fields, the pipelines it has built and the outputs   *)
(* of the running call (signals emitted, state requests, parse attempts).  *)
(* An action runs one handler to completion on the UI thread.              *)
(***************************************************************************)
EXTENDS Integers, Sequences, FiniteSets, TLC

\* ------------------------------------------------------------------ bounds
MaxPipelines == 2      \* pipelines built successfully in one run
MaxBus == 1            \* bus messages in flight

\* ------------------------------------------------------------- input values
NullPipeline == 0
NullSink == 0
SinkA == 1
SinkB == 2
Sinks == {SinkA, SinkB}

DescA == "videotestsrc ! videoconvert"
DescB == "v4l2src ! videoconvert"
DescNoPad == "videotestsrc ! videoconvert ! fakesink"
DescBad == "nosuchelement"
Descriptions == {"", DescA, DescB, DescNoPad, DescBad}

PipelineIds == 1..MaxPipelines

\* QGst::State values, in the order the framework walks them
StateNull == "Null"
StateReady == "Ready"
StatePaused == "Paused"
StatePlaying == "Playing"
StateRank(s) == CASE s = StateNull -> 0 [] s = StateReady -> 1
                  [] s = StatePaused -> 2 [] s = StatePlaying -> 3

MessageEos == "Eos"
MessageError == "Error"
MessageStateChanged == "StateChanged"
MessageOther == "Other"

NoMessage == [type |-> "None", source |-> NullPipeline, newState |-> "None"]

VARIABLES
  m_playing, m_paused, m_stopped,      \* the observable triple
  m_pipelineString,                    \* the desired description
  m_currentPipelineString,             \* the description the pipeline was built from
  m_pipeline,                          \* the live pipeline, NullPipeline if none
  m_videoSink,                         \* the stored sink reference
  pipelines,                           \* per built pipeline: framework side state
  nextPipeline,                        \* identity of the next pipeline parseLaunch returns
  bus,                                 \* messages posted and not yet dispatched
  faulted,                             \* the process died on a null sink
  rebuildObs,                          \* what the bus has published since a rebuild while playing
  last                                 \* what the last handler did

vars == <<m_playing, m_paused, m_stopped, m_pipelineString,
          m_currentPipelineString, m_pipeline, m_videoSink, pipelines,
          nextPipeline, bus, faulted, rebuildObs, last>>

\* ---------------------------------------------------- the running call's view
\* a pipeline as the framework holds it; text is the description it was
\* parsed from
NewPipeline == [state |-> StateNull, target |-> StateNull, sink |-> NullSink,
                watch |-> FALSE, built |-> FALSE, dropped |-> FALSE, text |-> ""]

Triple(S) == <<S.playing, S.paused, S.stopped>>

Begin == [playing |-> m_playing, paused |-> m_paused, stopped |-> m_stopped,
          pipelineString |-> m_pipelineString,
          currentPipelineString |-> m_currentPipelineString,
          pipeline |-> m_pipeline, videoSink |-> m_videoSink,
          pipelines |-> pipelines,
          emits |-> <<>>, reqs |-> <<>>, parses |-> 0, events |-> <<>>,
          torn |-> NullPipeline, detached |-> NullSink, built |-> NullPipeline,
          ret |-> "void", faulted |-> FALSE]

\* emit sig(val): the observer sees the triple as it is at this moment, after
\* the state requests made so far
Emit(S, sig, val) ==
  [S EXCEPT !.emits = Append(@, [sig |-> sig, val |-> val, text |-> "",
                                 seen |-> Triple(S), after |-> Len(S.reqs)])]

\* the message goes out twice
EmitMessageBox_twice(S, msg) ==
  [S EXCEPT !.emits = @ \o << [sig |-> "messageBox", val |-> FALSE,
                               text |-> msg, seen |-> Triple(S),
                               after |-> Len(S.reqs)],
                             [sig |-> "messageBox", val |-> FALSE,
                               text |-> msg, seen |-> Triple(S),
                               after |-> Len(S.reqs)] >>]

EmitMessageBox(S, msg) ==
  [S EXCEPT !.emits = Append(@, [sig |-> "messageBox", val |-> FALSE,
                                 text |-> msg, seen |-> Triple(S),
                               after |-> Len(S.reqs)])]

\* m_pipeline->setState(s): asynchronous, the framework moves later
setState(S, s) ==
  [S EXCEPT !.pipelines[S.pipeline].target = s,
            !.reqs = Append(@, [pipeline |-> S.pipeline, state |-> s])]

\* ------------------------------------------------ the framework's parser
\* QGst::ElementFactory::parseLaunch(text).dynamicCast<QGst::Pipeline>():
\* non-null exactly for a text that parses into a pipeline
parseLaunch(text) == text \in {DescA, DescB, DescNoPad}

\* m_pipeline->findUnlinkedPad(QGst::PadSrc): null when the description
\* already ends in a sink
findUnlinkedPad(text) == text \in {DescA, DescB}

\* ------------------------------------------------------------- the handlers
\* Paused is requested where Null is meant
stop_requestsPaused(S) ==
  IF S.pipeline # NullPipeline THEN setState(S, StatePaused) ELSE S

stop(S) ==
  IF S.pipeline # NullPipeline THEN setState(S, StateNull) ELSE S

pause(S) ==
  IF S.pipeline # NullPipeline THEN setState(S, StatePaused) ELSE S

\* m_pipeline->remove(m_videoSink): the bin only gives up an element it holds
remove(S) ==
  IF S.videoSink # NullSink /\ S.pipelines[S.pipeline].sink = S.videoSink
  THEN [S EXCEPT !.pipelines[S.pipeline].sink = NullSink,
                 !.detached = S.videoSink]
  ELSE S

\* m_pipeline.clear(): the last reference goes and the pipeline with it; the
\* messages it has posted stay on the bus. A pipeline that was parsed and
\* never linked leaves nothing behind.
DroppedPipeline == [state |-> StateNull, target |-> StateNull, sink |-> NullSink,
                    watch |-> FALSE, built |-> TRUE, dropped |-> TRUE, text |-> ""]

clear(S) ==
  [S EXCEPT !.pipeline = NullPipeline,
            !.pipelines[S.pipeline] =
               IF @.built THEN DroppedPipeline ELSE NewPipeline]

\* the description of the new pipeline is not committed
link_keepsDescription(S) ==
  [S EXCEPT !.pipelines[S.pipeline].sink = S.videoSink,
            !.pipelines[S.pipeline].watch = TRUE,
            !.pipelines[S.pipeline].built = TRUE,
            !.built = S.pipeline]

\* lines 142-151: the sink is wired in and the bus is watched
link(S) ==
  [S EXCEPT !.pipelines[S.pipeline].sink = S.videoSink,
            !.pipelines[S.pipeline].watch = TRUE,
            !.pipelines[S.pipeline].built = TRUE,
            !.built = S.pipeline,
            !.currentPipelineString = S.pipelineString]

\* lines 123-164; ub: how the build dies on m_videoSink->setProperty when no
\* sink was set (the assertion of a debug build, the null read of a release
\* build)
rebuild(S, ub) ==
  LET S1 == [S EXCEPT !.currentPipelineString = ""]
      S2 == stop(S1)
      S3 == IF S2.pipeline # NullPipeline
            THEN clear([remove(S2) EXCEPT !.torn = S2.pipeline])
            ELSE S2
      S4 == IF parseLaunch(S3.pipelineString)
            THEN [S3 EXCEPT !.parses = @ + 1,
                            !.pipeline = nextPipeline,
                            !.pipelines[nextPipeline].text = S3.pipelineString]
            ELSE [S3 EXCEPT !.parses = @ + 1, !.pipeline = NullPipeline]
  IN IF S4.pipeline # NullPipeline
     THEN IF findUnlinkedPad(S4.pipelineString)
          THEN IF S4.videoSink = NullSink
               THEN [S4 EXCEPT !.faulted = TRUE, !.ret = ub]
               ELSE link(S4)
          ELSE clear(EmitMessageBox(S4,
                 "The Pipeline command string has no unlinked video source element, cannot link pipeline. String = "
                 \o S4.pipelineString))
     ELSE EmitMessageBox(S4,
            "Failed to create the pipeline '" \o S4.pipelineString \o "'!")

\* the comparison with the current description is left out
initialize_alwaysRebuilds(S, ub) ==
  IF S.pipelineString # "" THEN rebuild(S, ub) ELSE S

initialize(S, ub) ==
  IF S.pipelineString # "" /\ S.pipelineString # S.currentPipelineString
  THEN rebuild(S, ub)
  ELSE S

\* success is reported whether or not a pipeline exists
play_alwaysTrue(S, ub) ==
  LET S1 == initialize(S, ub)
  IN IF S1.faulted THEN S1
     ELSE IF S1.pipeline # NullPipeline
          THEN [setState(S1, StatePlaying) EXCEPT !.ret = "true"]
          ELSE [S1 EXCEPT !.ret = "true"]

play(S, ub) ==
  LET S1 == initialize(S, ub)
  IN IF S1.faulted THEN S1
     ELSE IF S1.pipeline # NullPipeline
          THEN [setState(S1, StatePlaying) EXCEPT !.ret = "true"]
          ELSE [S1 EXCEPT !.ret = "false"]

\* the Paused case forgets to withdraw playing
handlePipelineStateChange_keepsPlaying(S, newState) ==
  CASE newState = StatePlaying ->
         LET S1 == Emit([S EXCEPT !.playing = TRUE], "playingChanged", TRUE)
             S2 == Emit([S1 EXCEPT !.paused = FALSE], "pausedChanged", FALSE)
         IN Emit([S2 EXCEPT !.stopped = FALSE], "stoppedChanged", FALSE)
    [] newState = StatePaused ->
         LET S1 == Emit(S, "playingChanged", S.playing)
             S2 == Emit([S1 EXCEPT !.paused = TRUE], "pausedChanged", TRUE)
         IN Emit([S2 EXCEPT !.stopped = FALSE], "stoppedChanged", FALSE)
    [] newState = StateNull ->
         LET S1 == Emit([S EXCEPT !.playing = FALSE], "playingChanged", FALSE)
             S2 == Emit([S1 EXCEPT !.paused = FALSE], "pausedChanged", FALSE)
         IN Emit([S2 EXCEPT !.stopped = TRUE], "stoppedChanged", TRUE)
    [] OTHER -> S

\* the Playing and Paused cases are swapped
handlePipelineStateChange_swapped(S, newState) ==
  CASE newState = StatePaused ->
         LET S1 == Emit([S EXCEPT !.playing = TRUE], "playingChanged", TRUE)
             S2 == Emit([S1 EXCEPT !.paused = FALSE], "pausedChanged", FALSE)
         IN Emit([S2 EXCEPT !.stopped = FALSE], "stoppedChanged", FALSE)
    [] newState = StatePlaying ->
         LET S1 == Emit([S EXCEPT !.playing = FALSE], "playingChanged", FALSE)
             S2 == Emit([S1 EXCEPT !.paused = TRUE], "pausedChanged", TRUE)
         IN Emit([S2 EXCEPT !.stopped = FALSE], "stoppedChanged", FALSE)
    [] newState = StateNull ->
         LET S1 == Emit([S EXCEPT !.playing = FALSE], "playingChanged", FALSE)
             S2 == Emit([S1 EXCEPT !.paused = FALSE], "pausedChanged", FALSE)
         IN Emit([S2 EXCEPT !.stopped = TRUE], "stoppedChanged", TRUE)
    [] OTHER -> S

\* a property that already holds the published value is not notified again
handlePipelineStateChange_dedup(S, newState) ==
  LET Publish(T, playing, paused, stopped) ==
        LET T1 == IF T.playing # playing
                  THEN Emit([T EXCEPT !.playing = playing], "playingChanged", playing)
                  ELSE T
            T2 == IF T1.paused # paused
                  THEN Emit([T1 EXCEPT !.paused = paused], "pausedChanged", paused)
                  ELSE T1
        IN IF T2.stopped # stopped
           THEN Emit([T2 EXCEPT !.stopped = stopped], "stoppedChanged", stopped)
           ELSE T2
  IN CASE newState = StatePlaying -> Publish(S, TRUE, FALSE, FALSE)
       [] newState = StatePaused -> Publish(S, FALSE, TRUE, FALSE)
       [] newState = StateNull -> Publish(S, FALSE, FALSE, TRUE)
       [] OTHER -> S

handlePipelineStateChange(S, newState) ==
  CASE newState = StatePlaying ->
         LET S1 == Emit([S EXCEPT !.playing = TRUE], "playingChanged", TRUE)
             S2 == Emit([S1 EXCEPT !.paused = FALSE], "pausedChanged", FALSE)
         IN Emit([S2 EXCEPT !.stopped = FALSE], "stoppedChanged", FALSE)
    [] newState = StatePaused ->
         LET S1 == Emit([S EXCEPT !.playing = FALSE], "playingChanged", FALSE)
             S2 == Emit([S1 EXCEPT !.paused = TRUE], "pausedChanged", TRUE)
         IN Emit([S2 EXCEPT !.stopped = FALSE], "stoppedChanged", FALSE)
    [] newState = StateNull ->
         LET S1 == Emit([S EXCEPT !.playing = FALSE], "playingChanged", FALSE)
             S2 == Emit([S1 EXCEPT !.paused = FALSE], "pausedChanged", FALSE)
         IN Emit([S2 EXCEPT !.stopped = TRUE], "stoppedChanged", TRUE)
    [] OTHER -> S

\* end of stream and errors are dropped like any other message
onBusMessage_ignoresEos(S, message) ==
  CASE message.type = MessageStateChanged ->
         IF S.pipeline # NullPipeline /\ message.source = S.pipeline
         THEN handlePipelineStateChange(S, message.newState)
         ELSE S
    [] OTHER -> S

\* a state change is published whichever element reports it
onBusMessage_anySource(S, message) ==
  CASE message.type = MessageEos -> stop(S)
    [] message.type = MessageError -> stop(S)
    [] message.type = MessageStateChanged ->
         IF S.pipeline # NullPipeline
         THEN handlePipelineStateChange(S, message.newState)
         ELSE S
    [] OTHER -> S

onBusMessage(S, message) ==
  CASE message.type = MessageEos -> stop(S)
    [] message.type = MessageError -> stop(S)
    [] message.type = MessageStateChanged ->
         IF S.pipeline # NullPipeline /\ message.source = S.pipeline
         THEN handlePipelineStateChange(S, message.newState)
         ELSE S
    [] OTHER -> S

\* the event is sent without asking whether a pipeline exists
sendEOS_unguarded(S) ==
  [S EXCEPT !.events = Append(@, [pipeline |-> S.pipeline, event |-> "Eos"])]

sendEOS(S) ==
  IF S.pipeline # NullPipeline
  THEN [S EXCEPT !.events = Append(@, [pipeline |-> S.pipeline, event |-> "Eos"])]
  ELSE S

\* the pipeline is stopped before the properties are published
onStopTimer_stopsFirst(S) ==
  LET S0 == stop(S)
      S1 == Emit([S0 EXCEPT !.stopped = TRUE], "stoppedChanged", TRUE)
      S2 == Emit([S1 EXCEPT !.paused = FALSE], "pausedChanged", FALSE)
  IN Emit([S2 EXCEPT !.playing = FALSE], "playingChanged", FALSE)

onStopTimer(S) ==
  LET S1 == Emit([S EXCEPT !.stopped = TRUE], "stoppedChanged", TRUE)
      S2 == Emit([S1 EXCEPT !.paused = FALSE], "pausedChanged", FALSE)
      S3 == Emit([S2 EXCEPT !.playing = FALSE], "playingChanged", FALSE)
  IN stop(S3)

onPlayTimer(S, ub) ==
  LET S1 == Emit([S EXCEPT !.playing = TRUE], "playingChanged", TRUE)
      S2 == Emit([S1 EXCEPT !.paused = FALSE], "pausedChanged", FALSE)
      S3 == Emit([S2 EXCEPT !.stopped = FALSE], "stoppedChanged", FALSE)
  IN play(S3, ub)

setVideoSink(S, sink) == [S EXCEPT !.videoSink = sink]

\* the header's setter of the pipelineString property
setPipelineString(S, text) == [S EXCEPT !.pipelineString = text]

\* ------------------------------------------------------------ initial state
Idle == [op |-> "none", message |-> NoMessage, ret |-> "void", emits |-> <<>>,
         reqs |-> <<>>, parses |-> 0, events |-> <<>>, torn |-> NullPipeline,
         detached |-> NullSink, built |-> NullPipeline]

Init ==
  /\ m_playing = FALSE
  /\ m_stopped = TRUE
  /\ m_paused = FALSE
  /\ m_currentPipelineString = ""
  /\ m_pipelineString = ""
  /\ m_pipeline = NullPipeline
  /\ m_videoSink = NullSink
  /\ pipelines = [p \in PipelineIds |-> NewPipeline]
  /\ nextPipeline = 1
  /\ bus = <<>>
  /\ faulted = FALSE
  /\ rebuildObs = "idle"
  /\ last = Idle

\* the live pipeline plays, the triple says so and nothing else is under way
PlayingSettled ==
  /\ m_pipeline # NullPipeline
  /\ pipelines[m_pipeline].state = StatePlaying
  /\ pipelines[m_pipeline].target = StatePlaying
  /\ <<m_playing, m_paused, m_stopped>> = <<TRUE, FALSE, FALSE>>
  /\ bus = <<>>

\* the handler has returned: its result becomes the state
Return(S, op, message) ==
  /\ rebuildObs' =
       IF op = "onBusMessage"
       THEN (IF S.emits = <<>> THEN rebuildObs
             ELSE CASE rebuildObs = "rebuilt" /\ Triple(S) = <<FALSE, FALSE, TRUE>> -> "null"
                    [] rebuildObs = "rebuilt" /\ Triple(S) = <<TRUE, FALSE, FALSE>> -> "playing"
                    [] rebuildObs = "null" /\ Triple(S) = <<TRUE, FALSE, FALSE>> -> "nullThenPlaying"
                    [] OTHER -> rebuildObs)
       ELSE IF op \in {"setVideoSink", "setPipelineString"} THEN rebuildObs
       ELSE IF /\ op = "play"
               /\ PlayingSettled
               /\ S.torn # NullPipeline
               /\ S.built # NullPipeline
            THEN "rebuilt"
            ELSE "idle"
  /\ m_playing' = S.playing
  /\ m_paused' = S.paused
  /\ m_stopped' = S.stopped
  /\ m_pipelineString' = S.pipelineString
  /\ m_currentPipelineString' = S.currentPipelineString
  /\ m_pipeline' = S.pipeline
  /\ m_videoSink' = S.videoSink
  /\ pipelines' = S.pipelines
  /\ nextPipeline' = IF S.built # NullPipeline THEN nextPipeline + 1 ELSE nextPipeline
  /\ faulted' = S.faulted
  /\ last' = [op |-> op, message |-> message, ret |-> S.ret, emits |-> S.emits,
              reqs |-> S.reqs, parses |-> S.parses, events |-> S.events,
              torn |-> S.torn, detached |-> S.detached, built |-> S.built]

\* a rebuild needs a pipeline identity that is still free
NeedsRebuild ==
  m_pipelineString # "" /\ m_pipelineString # m_currentPipelineString

CanBuild == NeedsRebuild => nextPipeline <= MaxPipelines

UB == {"abort", "segv"}

\* --------------------------------------------------- the public operations
SetVideoSink(sinks) ==
  /\ ~faulted
  /\ \E sink \in sinks : Return(setVideoSink(Begin, sink), "setVideoSink", NoMessage)
  /\ UNCHANGED bus

SetPipelineString(texts) ==
  /\ ~faulted
  /\ \E text \in texts :
       Return(setPipelineString(Begin, text), "setPipelineString", NoMessage)
  /\ UNCHANGED bus

Play ==
  /\ ~faulted
  /\ CanBuild
  /\ \E ub \in UB : Return(play(Begin, ub), "play", NoMessage)
  /\ UNCHANGED bus

Pause ==
  /\ ~faulted
  /\ Return(pause(Begin), "pause", NoMessage)
  /\ UNCHANGED bus

Stop ==
  /\ ~faulted
  /\ Return(stop(Begin), "stop", NoMessage)
  /\ UNCHANGED bus

SendEOS ==
  /\ ~faulted
  /\ Return(sendEOS(Begin), "sendEOS", NoMessage)
  /\ UNCHANGED bus

\* ------------------------------------------------------------ the timers
\* The one-shot timers are armed by the owner of the object (nothing in this
\* file starts them), so a timeout can arrive between any two handlers;
\* m_stopTimer.stop() on the timer that has just fired changes nothing.
OnStopTimer ==
  /\ ~faulted
  /\ Return(onStopTimer(Begin), "onStopTimer", NoMessage)
  /\ UNCHANGED bus

OnPlayTimer ==
  /\ ~faulted
  /\ CanBuild
  /\ \E ub \in UB : Return(onPlayTimer(Begin, ub), "onPlayTimer", NoMessage)
  /\ UNCHANGED bus

\* --------------------------------------------------------------- the bus
\* the signal watch hands the oldest message to the slot
OnBusMessage ==
  /\ ~faulted
  /\ bus # <<>>
  /\ Return(onBusMessage(Begin, Head(bus)), "onBusMessage", Head(bus))
  /\ bus' = Tail(bus)

\* ---------------------------------------------------------- the framework
Running(p) == pipelines[p].built /\ ~pipelines[p].dropped

StepToward(s, t) ==
  IF StateRank(s) < StateRank(t)
  THEN CASE s = StateNull -> StateReady [] s = StateReady -> StatePaused
         [] OTHER -> StatePlaying
  ELSE CASE s = StatePlaying -> StatePaused [] s = StatePaused -> StateReady
         [] OTHER -> StateNull

Post(message) ==
  /\ ~faulted
  /\ Len(bus) < MaxBus
  /\ bus' = Append(bus, message)
  /\ UNCHANGED rebuildObs
  /\ last' = Idle

\* a pipeline moves one state toward the requested one and reports it
ChangeState ==
  \E p \in PipelineIds :
    /\ Running(p)
    /\ pipelines[p].state # pipelines[p].target
    /\ LET s == StepToward(pipelines[p].state, pipelines[p].target)
       IN /\ pipelines' = [pipelines EXCEPT ![p].state = s]
          /\ Post([type |-> MessageStateChanged, source |-> p, newState |-> s])
    /\ UNCHANGED <<m_playing, m_paused, m_stopped, m_pipelineString,
                   m_currentPipelineString, m_pipeline, m_videoSink,
                   nextPipeline, faulted>>

PostEos ==
  \E p \in PipelineIds :
    /\ Running(p)
    /\ pipelines[p].state = StatePlaying
    /\ Post([type |-> MessageEos, source |-> p, newState |-> "None"])
    /\ UNCHANGED <<m_playing, m_paused, m_stopped, m_pipelineString,
                   m_currentPipelineString, m_pipeline, m_videoSink,
                   pipelines, nextPipeline, faulted>>

PostError ==
  \E p \in PipelineIds :
    /\ Running(p)
    /\ pipelines[p].state \in {StatePaused, StatePlaying}
    /\ Post([type |-> MessageError, source |-> p, newState |-> "None"])
    /\ UNCHANGED <<m_playing, m_paused, m_stopped, m_pipelineString,
                   m_currentPipelineString, m_pipeline, m_videoSink,
                   pipelines, nextPipeline, faulted>>

\* the element inside pipeline p that posts on the pipeline's bus
Child(p) == 0 - p

\* a child element changes state ahead of its pipeline and reports it on the
\* same bus
PostChildStateChanged ==
  \E p \in PipelineIds :
    /\ Running(p)
    /\ pipelines[p].state # pipelines[p].target
    /\ Post([type |-> MessageStateChanged, source |-> Child(p),
             newState |-> StepToward(pipelines[p].state, pipelines[p].target)])
    /\ UNCHANGED <<m_playing, m_paused, m_stopped, m_pipelineString,
                   m_currentPipelineString, m_pipeline, m_videoSink,
                   pipelines, nextPipeline, faulted>>

PostOther ==
  \E p \in PipelineIds :
    /\ Running(p)
    /\ pipelines[p].state # StateNull
    /\ Post([type |-> MessageOther, source |-> p, newState |-> "None"])
    /\ UNCHANGED <<m_playing, m_paused, m_stopped, m_pipelineString,
                   m_currentPipelineString, m_pipeline, m_videoSink,
                   pipelines, nextPipeline, faulted>>

Next ==
  \/ SetVideoSink(Sinks)
  \/ SetPipelineString(Descriptions)
  \/ Play
  \/ Pause
  \/ Stop
  \/ SendEOS
  \/ OnStopTimer
  \/ OnPlayTimer
  \/ OnBusMessage
  \/ ChangeState
  \/ PostEos
  \/ PostError
  \/ PostChildStateChanged
  \/ PostOther

Spec == Init /\ [][Next]_vars

\* The event loop dispatches a queued message; the framework's threads carry
\* a requested state change through whenever the bus has room (the real bus
\* is unbounded, so the change is never held back for good).
\* The liveness claims are about what follows a request for Null; they are
\* checked with one sink and three descriptions.
LiveSinks == {SinkA}
LiveDescriptions == {DescA, DescB, DescBad}

LiveNext ==
  \/ SetVideoSink(LiveSinks)
  \/ SetPipelineString(LiveDescriptions)
  \/ Play
  \/ Pause
  \/ Stop
  \/ OnStopTimer
  \/ OnPlayTimer
  \/ OnBusMessage
  \/ ChangeState
  \/ PostEos
  \/ PostError

LiveSpec ==
  Init /\ [][LiveNext]_vars /\ WF_vars(OnBusMessage) /\ SF_vars(ChangeState)

Stopped == <<m_playing, m_paused, m_stopped>> = <<FALSE, FALSE, TRUE>>

\* ================================================================ claims
ExactlyOne(t) == Cardinality({i \in 1..3 : t[i]}) = 1

TripleNow == <<m_playing, m_paused, m_stopped>>

Published(newState) ==
  CASE newState = StatePlaying -> <<TRUE, FALSE, FALSE>>
    [] newState = StatePaused -> <<FALSE, TRUE, FALSE>>
    [] newState = StateNull -> <<FALSE, FALSE, TRUE>>

\* the last handler was the dispatch of a StateChanged message of the live
\* pipeline
PipelineStateChanged ==
  /\ last.op = "onBusMessage"
  /\ last.message.type = MessageStateChanged
  /\ m_pipeline # NullPipeline
  /\ last.message.source = m_pipeline

CountReqs(reqs, p, s) ==
  Cardinality({i \in 1..Len(reqs) : reqs[i] = [pipeline |-> p, state |-> s]})

MessageBoxes(emits) ==
  SelectSeq(emits, LAMBDA e : e.sig = "messageBox")

\* C1: between handler invocations (after the constructor, a public
\* operation, a bus dispatch or a timer callback) exactly one of playing,
\* paused, stopped is true.
C1_ExactlyOneSettled == ExactlyOne(TripleNow)

\* Paused has been reported by the live pipeline and published
C1_Witness ==
  /\ PipelineStateChanged
  /\ last.message.newState = StatePaused
  /\ Len(last.emits) = 3
  /\ TripleNow = <<FALSE, TRUE, FALSE>>

\* C2: after the dispatch of a StateChanged message whose source is the
\* live pipeline the triple is (T,F,F) for Playing, (F,T,F) for Paused and
\* (F,F,T) for Null.
C2_PublishedTriple ==
  (PipelineStateChanged /\ last.message.newState \in {StatePlaying, StatePaused, StateNull})
    => TripleNow = Published(last.message.newState)

\* Null has been reported by the live pipeline while the triple was not the
\* stopped one
C2_Witness ==
  /\ PipelineStateChanged
  /\ last.message.newState = StateNull
  /\ Len(last.emits) = 3
  /\ last.emits[2].seen # <<FALSE, FALSE, TRUE>>
  /\ TripleNow = <<FALSE, FALSE, TRUE>>

\* C3: within one bus dispatch the triple holds its final value at the
\* moment each of its change notifications is emitted, so an observer never
\* sees two of the booleans true or none true.
C3_FinalBeforeNotify ==
  last.op = "onBusMessage" =>
    \A i \in 1..Len(last.emits) :
      /\ last.emits[i].seen = TripleNow
      /\ ExactlyOne(last.emits[i].seen)

\* the request for Null stands no longer: the pipeline is gone or has been
\* asked for another state
Overridden ==
  \/ m_pipeline = NullPipeline
  \/ pipelines[m_pipeline].target # StateNull

\* C4: stop() asks a live pipeline for Null and changes neither the triple
\* nor the pipeline reference, with no pipeline it requests nothing; and
\* when the pipeline had left Null, so that a StateChanged(Null) results,
\* the triple eventually becomes (F,F,T) unless a play or pause overrides
\* the request.
C4_StopSettles ==
  /\ [](last.op = "stop" =>
          last.reqs = IF m_pipeline # NullPipeline
                      THEN <<[pipeline |-> m_pipeline, state |-> StateNull]>>
                      ELSE <<>>)
  /\ [][last'.op = "stop" =>
          /\ <<m_playing, m_paused, m_stopped>>' = <<m_playing, m_paused, m_stopped>>
          /\ m_pipeline' = m_pipeline
          /\ m_currentPipelineString' = m_currentPipelineString]_vars
  /\ []((/\ last.op = "stop"
         /\ m_pipeline # NullPipeline
         /\ pipelines[m_pipeline].state # StateNull)
          => <>(Stopped \/ Overridden))

\* stop() has been called on a playing pipeline while the triple said playing
C4_Witness ==
  /\ last.op = "stop"
  /\ m_pipeline # NullPipeline
  /\ pipelines[m_pipeline].state = StatePlaying
  /\ last.reqs = <<[pipeline |-> m_pipeline, state |-> StateNull]>>
  /\ TripleNow = <<TRUE, FALSE, FALSE>>

\* C5: with a non-empty desired description that differs from
\* CurrentDescription, play() tears the existing pipeline down (requests
\* Null, detaches its sink, drops it) and parses exactly once; on success
\* CurrentDescription is the desired description and no rebuild is due.
C5_RebuildOnce ==
  [][(last'.op = "play" /\ NeedsRebuild) =>
       /\ last'.parses = 1
       /\ (m_pipeline # NullPipeline =>
             /\ last'.torn = m_pipeline
             /\ last'.reqs[1] = [pipeline |-> m_pipeline, state |-> StateNull]
             /\ last'.detached = pipelines[m_pipeline].sink
             /\ pipelines'[m_pipeline].dropped
             /\ m_pipeline' # m_pipeline)
       /\ (last'.ret = "true" =>
             /\ m_currentPipelineString' = m_pipelineString
             /\ ~NeedsRebuild')]_vars

\* C6: when CurrentDescription equals the desired description, play() does
\* not rebuild: pipeline reference, sink attachment, bus subscription and
\* CurrentDescription are unchanged, no message_box is emitted and the only
\* effect is one Playing request on the existing pipeline.
C6_PlayNoRebuild ==
  [][(last'.op = "play" /\ m_currentPipelineString = m_pipelineString) =>
       /\ m_pipeline' = m_pipeline
       /\ m_currentPipelineString' = m_currentPipelineString
       /\ m_videoSink' = m_videoSink
       /\ <<m_playing, m_paused, m_stopped>>' = <<m_playing, m_paused, m_stopped>>
       /\ \A p \in PipelineIds :
            /\ pipelines'[p].sink = pipelines[p].sink
            /\ pipelines'[p].watch = pipelines[p].watch
            /\ pipelines'[p].state = pipelines[p].state
            /\ pipelines'[p].dropped = pipelines[p].dropped
            /\ p # m_pipeline => pipelines'[p] = pipelines[p]
       /\ nextPipeline' = nextPipeline
       /\ last'.emits = <<>>
       /\ last'.parses = 0
       /\ last'.torn = NullPipeline
       /\ last'.reqs = IF m_pipeline # NullPipeline
                       THEN <<[pipeline |-> m_pipeline, state |-> StatePlaying]>>
                       ELSE <<>>]_vars

\* play() has been called on a pipeline that already plays its description
C6_Witness ==
  /\ last.op = "play"
  /\ last.parses = 0
  /\ m_pipeline # NullPipeline
  /\ m_currentPipelineString = m_pipelineString
  /\ pipelines[m_pipeline].state = StatePlaying
  /\ last.reqs = <<[pipeline |-> m_pipeline, state |-> StatePlaying]>>

\* C7: a play() with a description that fails to build (called directly or
\* by the play timer) emits exactly one message_box with the error text of
\* the failure, ends with no pipeline and an empty CurrentDescription and
\* returns failure, at every call.
C7_BuildFailure ==
  (last.op \in {"play", "onPlayTimer"} /\ m_pipelineString \in {DescBad, DescNoPad}) =>
     /\ Len(MessageBoxes(last.emits)) = 1
     /\ MessageBoxes(last.emits)[1].text =
          IF m_pipelineString = DescBad
          THEN "Failed to create the pipeline 'nosuchelement'!"
          ELSE "The Pipeline command string has no unlinked video source element, cannot link pipeline. String = videotestsrc ! videoconvert ! fakesink"
     /\ last.parses = 1
     /\ m_pipeline = NullPipeline
     /\ m_currentPipelineString = ""
     /\ last.ret = "false"

\* a description without an unlinked source pad has replaced a live
\* pipeline and failed
C7_Witness ==
  /\ last.op = "play"
  /\ m_pipelineString = DescNoPad
  /\ last.torn # NullPipeline
  /\ Len(last.emits) = 1
  /\ last.ret = "false"

\* C8: play() (called directly or by the play timer) returns success exactly
\* when a pipeline exists at its return, and a successful play() has
\* requested Playing on that pipeline once.
C8_PlayResult ==
  (last.op \in {"play", "onPlayTimer"} /\ ~faulted) =>
     /\ last.ret \in {"true", "false"}
     /\ (last.ret = "true") <=> (m_pipeline # NullPipeline)
     /\ last.ret = "true" =>
          /\ CountReqs(last.reqs, m_pipeline, StatePlaying) = 1
          /\ last.reqs[Len(last.reqs)] = [pipeline |-> m_pipeline, state |-> StatePlaying]
     /\ last.ret = "false" => CountReqs(last.reqs, m_pipeline, StatePlaying) = 0

\* play() has failed after it tore a live pipeline down
C8_Witness ==
  /\ last.op = "play"
  /\ last.ret = "false"
  /\ last.torn # NullPipeline
  /\ m_pipeline = NullPipeline

\* C9: the dispatch of EndOfStream or Error requests Null on the live
\* pipeline, and with a playing pipeline the triple eventually becomes
\* (F,F,T) unless a play or pause overrides the request.
C9_EosStops ==
  /\ []((last.op = "onBusMessage" /\ last.message.type \in {MessageEos, MessageError}) =>
          last.reqs = IF m_pipeline # NullPipeline
                      THEN <<[pipeline |-> m_pipeline, state |-> StateNull]>>
                      ELSE <<>>)
  /\ []((/\ last.op = "onBusMessage"
         /\ last.message.type \in {MessageEos, MessageError}
         /\ m_pipeline # NullPipeline
         /\ pipelines[m_pipeline].state = StatePlaying)
          => <>(Stopped \/ Overridden))

\* EndOfStream of the playing pipeline has been dispatched while the triple
\* said playing
C9_Witness ==
  /\ last.op = "onBusMessage"
  /\ last.message = [type |-> MessageEos, source |-> m_pipeline, newState |-> "None"]
  /\ m_pipeline # NullPipeline
  /\ pipelines[m_pipeline].state = StatePlaying
  /\ last.reqs = <<[pipeline |-> m_pipeline, state |-> StateNull]>>
  /\ TripleNow = <<TRUE, FALSE, FALSE>>

\* C10: play() after a change of description while playing tears the old
\* pipeline down, builds a new one and asks it to play once, and the bus
\* then publishes (F,F,T) before it publishes (T,F,F).
C10_ThroughNull ==
  /\ (last.op = "play" /\ rebuildObs = "rebuilt") =>
        /\ last.torn # NullPipeline
        /\ last.built = m_pipeline
        /\ last.parses = 1
        /\ CountReqs(last.reqs, m_pipeline, StatePlaying) = 1
  /\ rebuildObs # "playing"

\* C11: sendEOS() with no live pipeline posts no event and changes nothing;
\* with a live pipeline each call posts exactly one end-of-stream event into
\* that pipeline, requests no state, emits nothing and changes neither the
\* triple, the pipeline reference nor CurrentDescription.
C11_SendEosOnce ==
  /\ [](last.op = "sendEOS" =>
          /\ last.events = IF m_pipeline # NullPipeline
                           THEN <<[pipeline |-> m_pipeline, event |-> "Eos"]>>
                           ELSE <<>>
          /\ last.reqs = <<>>
          /\ last.emits = <<>>)
  /\ [][last'.op = "sendEOS" =>
          /\ <<m_playing, m_paused, m_stopped>>' = <<m_playing, m_paused, m_stopped>>
          /\ m_pipeline' = m_pipeline
          /\ m_currentPipelineString' = m_currentPipelineString
          /\ m_pipelineString' = m_pipelineString
          /\ m_videoSink' = m_videoSink
          /\ pipelines' = pipelines]_vars

\* sendEOS() has been called on a playing pipeline
C11_Witness ==
  /\ last.op = "sendEOS"
  /\ m_pipeline # NullPipeline
  /\ pipelines[m_pipeline].state = StatePlaying
  /\ Len(last.events) = 1

\* C12: setVideoSink(sink) called while a pipeline is live leaves the stored
\* sink reference unchanged, so that the sink the object holds is still the
\* one attached to the live pipeline.
C12_SinkKeptWhileLive ==
  [][(last'.op = "setVideoSink" /\ m_pipeline # NullPipeline) =>
       /\ m_videoSink' = m_videoSink
       /\ pipelines'[m_pipeline'].sink = m_videoSink']_vars

\* no video sink has been set, or no description has been set and nothing
\* was built
MissingPrerequisite ==
  \/ m_videoSink = NullSink
  \/ m_pipelineString = "" /\ m_pipeline = NullPipeline

\* C13: with a prerequisite missing (no sink set, or no description set)
\* play(), pause(), stop() and sendEOS() are no-ops that surface no error; in
\* particular play() with a buildable description and no sink set reaches no
\* fault (the absent sink is not used) and emits no messageBox.
C13_MissingPrerequisiteNoOp ==
  [][(/\ last'.op \in {"play", "pause", "stop", "sendEOS"}
      /\ MissingPrerequisite
      /\ m_pipelineString \in {"", DescA, DescB}) =>
       /\ ~faulted'
       /\ last'.emits = <<>>
       /\ last'.reqs = <<>>
       /\ last'.events = <<>>
       /\ <<m_playing, m_paused, m_stopped>>' = <<m_playing, m_paused, m_stopped>>
       /\ m_pipeline' = m_pipeline
       /\ m_currentPipelineString' = m_currentPipelineString]_vars

\* what the observers have been sent, in order
Notified(emits) == [i \in 1..Len(emits) |-> <<emits[i].sig, emits[i].val>>]

\* C14: a timer that fires publishes the triple and emits the three change
\* notifications before any state is requested of the framework: onStopTimer
\* emits stoppedChanged(true), pausedChanged(false), playingChanged(false) in
\* that order and only then calls stop(); onPlayTimer publishes (T,F,F) with
\* the three notifications and only then calls play().
C14_TimerPublishesFirst ==
  /\ last.op = "onStopTimer" =>
       /\ Notified(last.emits) = << <<"stoppedChanged", TRUE>>,
                                    <<"pausedChanged", FALSE>>,
                                    <<"playingChanged", FALSE>> >>
       /\ \A i \in 1..3 : last.emits[i].after = 0
       /\ last.emits[3].seen = <<FALSE, FALSE, TRUE>>
       /\ TripleNow = <<FALSE, FALSE, TRUE>>
       /\ last.reqs = IF m_pipeline # NullPipeline
                      THEN <<[pipeline |-> m_pipeline, state |-> StateNull]>>
                      ELSE <<>>
  /\ last.op = "onPlayTimer" =>
       /\ Len(last.emits) >= 3
       /\ SubSeq(Notified(last.emits), 1, 3) = << <<"playingChanged", TRUE>>,
                                                 <<"pausedChanged", FALSE>>,
                                                 <<"stoppedChanged", FALSE>> >>
       /\ \A i \in 1..3 : last.emits[i].after = 0
       /\ last.emits[3].seen = <<TRUE, FALSE, FALSE>>
       /\ TripleNow = <<TRUE, FALSE, FALSE>>
       /\ (~faulted /\ m_pipeline # NullPipeline) =>
            /\ last.ret = "true"
            /\ last.reqs[Len(last.reqs)] =
                 [pipeline |-> m_pipeline, state |-> StatePlaying]

\* the stop timer has fired on a playing pipeline while the triple said
\* playing: the first notification went out before playing was withdrawn and
\* Null was requested after the third
C14_Witness ==
  /\ last.op = "onStopTimer"
  /\ m_pipeline # NullPipeline
  /\ pipelines[m_pipeline].state = StatePlaying
  /\ last.emits[1].seen = <<TRUE, FALSE, TRUE>>
  /\ last.reqs = <<[pipeline |-> m_pipeline, state |-> StateNull]>>

\* C15: the dispatch of a StateChanged message of the live pipeline to
\* Playing, Paused or Null emits exactly three notifications, one
\* playingChanged, one pausedChanged and one stoppedChanged, each with the
\* published value, also when the triple already held the published value.
C15_ThreeNotifications ==
  (PipelineStateChanged /\ last.message.newState \in {StatePlaying, StatePaused, StateNull}) =>
     /\ Len(last.emits) = 3
     /\ {Notified(last.emits)[i] : i \in 1..Len(last.emits)} =
          { <<"playingChanged", Published(last.message.newState)[1]>>,
            <<"pausedChanged", Published(last.message.newState)[2]>>,
            <<"stoppedChanged", Published(last.message.newState)[3]>> }

\* the live pipeline has reported Null while the triple was already
\* (F,F,T): the first notification saw the published triple
C15_Witness ==
  /\ PipelineStateChanged
  /\ last.message.newState = StateNull
  /\ Len(last.emits) = 3
  /\ last.emits[1].seen = <<FALSE, FALSE, TRUE>>

\* C16: whenever play() is called while the desired description is the
\* empty string, no messageBox is emitted, no pipeline exists afterwards
\* (play() returns false and requests no state) and the triple is unchanged,
\* also when a pipeline was built earlier from a non-empty description.
C16_EmptyDescriptionPlay ==
  [][(last'.op = "play" /\ m_pipelineString = "") =>
       /\ MessageBoxes(last'.emits) = <<>>
       /\ m_pipeline' = NullPipeline
       /\ last'.ret = "false"
       /\ last'.reqs = <<>>
       /\ <<m_playing, m_paused, m_stopped>>' = <<m_playing, m_paused, m_stopped>>]_vars

\* with this live pipeline the message is neither EndOfStream, Error nor a
\* StateChanged of the pipeline to Playing, Paused or Null
Ignored(message, pipeline) ==
  /\ message.type \notin {MessageEos, MessageError}
  /\ message.type = MessageStateChanged =>
       \/ pipeline = NullPipeline
       \/ message.source # pipeline
       \/ message.newState \notin {StatePlaying, StatePaused, StateNull}

\* C17: the dispatch of a bus message that is neither EndOfStream, Error nor
\* a StateChanged of the live pipeline to Playing, Paused or Null (a
\* StateChanged of a child element, a StateChanged while no pipeline is live,
\* a StateChanged to Ready, any other message) leaves the triple, the
\* pipeline and CurrentDescription unchanged, emits no notification and
\* requests no state.
C17_OtherMessagesIgnored ==
  [][(last'.op = "onBusMessage" /\ Ignored(last'.message, m_pipeline)) =>
       /\ <<m_playing, m_paused, m_stopped>>' = <<m_playing, m_paused, m_stopped>>
       /\ m_pipeline' = m_pipeline
       /\ m_currentPipelineString' = m_currentPipelineString
       /\ m_pipelineString' = m_pipelineString
       /\ m_videoSink' = m_videoSink
       /\ pipelines' = pipelines
       /\ last'.emits = <<>>
       /\ last'.reqs = <<>>
       /\ last'.events = <<>>]_vars

\* a child element of the live pipeline has reported Playing while the
\* triple said stopped, and nothing was published
C17_Witness ==
  /\ last.op = "onBusMessage"
  /\ m_pipeline # NullPipeline
  /\ last.message = [type |-> MessageStateChanged, source |-> Child(m_pipeline),
                     newState |-> StatePlaying]
  /\ TripleNow = <<FALSE, FALSE, TRUE>>
  /\ last.emits = <<>>

\* C18: between handler invocations, no live pipeline means the triple is
\* (F,F,T): playing or paused implies that a pipeline exists, also after a
\* rebuild that failed on a playing pipeline and after the play timer fired
\* with an empty or unbuildable description.
C18_NoPipelineStopped ==
  m_pipeline = NullPipeline => TripleNow = <<FALSE, FALSE, TRUE>>

\* the last handler parsed a description and linked no pipeline
BuildFailed ==
  /\ last.op \in {"play", "onPlayTimer"}
  /\ last.parses = 1
  /\ last.built = NullPipeline

\* C19: between handler invocations a pipeline is live exactly when
\* CurrentDescription is non-empty; the live pipeline was parsed from the
\* text CurrentDescription holds, has its sink attached and its bus watched;
\* and a build that failed leaves neither a pipeline reference nor a
\* non-empty CurrentDescription.
C19_DescriptionTracksPipeline ==
  ~faulted =>
    /\ (m_pipeline # NullPipeline) <=> (m_currentPipelineString # "")
    /\ m_pipeline # NullPipeline =>
         /\ pipelines[m_pipeline].text = m_currentPipelineString
         /\ pipelines[m_pipeline].built
         /\ ~pipelines[m_pipeline].dropped
         /\ pipelines[m_pipeline].sink # NullSink
         /\ pipelines[m_pipeline].watch
    /\ BuildFailed => (m_pipeline = NullPipeline /\ m_currentPipelineString = "")

\* play() has replaced a live pipeline by one built from the other
\* description, while the desired description has already moved on
C19_Witness ==
  /\ m_pipeline # NullPipeline
  /\ pipelines[m_pipeline].text = DescB
  /\ m_pipelineString = DescNoPad
  /\ \E p \in PipelineIds : pipelines[p].dropped

\* the message was posted by a pipeline that a rebuild has since dropped and
\* replaced by the live one
Late(message) ==
  /\ message.source \in PipelineIds
  /\ pipelines[message.source].dropped
  /\ m_pipeline # NullPipeline

\* C20: the dispatch of a bus message of a pipeline that has been torn down
\* and replaced has no effect: a late StateChanged does not change the
\* triple, and a late EndOfStream or Error requests no Null on the new
\* pipeline.
C20_LateMessagesIgnored ==
  [][(last'.op = "onBusMessage" /\ Late(last'.message)) =>
       /\ <<m_playing, m_paused, m_stopped>>' = <<m_playing, m_paused, m_stopped>>
       /\ last'.emits = <<>>
       /\ last'.reqs = <<>>
       /\ pipelines' = pipelines]_vars
====
